---- MODULE Spec2Model ----
(***************************************************************************)
(* A model of fastcgi4j's bind wrapper (src/obj/bindwrap.c): the program   *)
(* that binds a listening socket, installs it as descriptor 0, launches    *)
(* the FastCGI worker and, for a UNIX-domain socket, supervises the worker *)
(* and removes the rendezvous path afterwards.                             *)
(*                                                                         *)
(* C strings are sequences of one-character strings; a pointer that may be *)
(* NULL is a sequence of length 0 (NULL) or 1 (the string pointed to).     *)
(* assert() is modelled as compiled in (the source defines no NDEBUG): a   *)
(* failed assertion aborts the process.                                    *)
(***************************************************************************)
EXTENDS Integers, Sequences, FiniteSets, TLC

----------------------------------------------------------------------------
(* Bounds of the model *)

\* at most this many entries in the inherited environment
MaxEnv == 2
\* at most this many candidate addresses returned by name resolution
MaxCandidates == 2
\* send() calls followed in one call of writeSocket
MaxSends == 3

----------------------------------------------------------------------------
(* Program and platform constants *)

\* sizeof addr.un.sun_path
SunPathSize == 108
\* sizeof buf, the copy of the network endpoint string
InetBufSize == 256
EXIT_FAILURE == 1
SIGHUP == 1
SIGINT == 2
SIGTERM == 15
SIGCHLD == 17

NUL == "NUL"
NULL == << >>
Ptr(s) == << s >>
Deref(p) == p[1]

Rep(c, n) == [i \in 1..n |-> c]

UNIX_BIND_VAR ==
  << "F","A","S","T","C","G","I","4","J","_","U","N","I","X","_","B","I","N","D" >>
INET_BIND_VAR ==
  << "F","A","S","T","C","G","I","4","J","_","I","N","E","T","_","B","I","N","D" >>
UNIX_PEER_VAR ==
  << "F","A","S","T","C","G","I","4","J","_","W","E","B","_","S","E","R","V","E","R",
     "_","A","D","D","R","S" >>

\* the permission bits S_IRWXU | S_IRWXG | S_IRWXO
OwnerBits == {"S_IRUSR", "S_IWUSR", "S_IXUSR"}
GroupBits == {"S_IRGRP", "S_IWGRP", "S_IXGRP"}
OtherBits == {"S_IROTH", "S_IWOTH", "S_IXOTH"}
AllBits == OwnerBits \cup GroupBits \cup OtherBits

\* the signals the supervisor blocks and reads from the signal descriptor
Interest == {SIGINT, SIGTERM, SIGHUP, SIGCHLD}

----------------------------------------------------------------------------
(* C string helpers *)

\* the character at 1-based position i of the C string s, its terminator
\* included
At(s, i) == IF i <= Len(s) THEN s[i] ELSE NUL

RECURSIVE match_from(_, _, _)
match_from(vname, envp, i) ==
  IF /\ At(vname, i) = At(envp, i)
     /\ At(vname, i) # NUL
     /\ At(envp, i) # NUL
     /\ At(envp, i) # "="
  THEN match_from(vname, envp, i + 1)
  ELSE At(envp, i) = "="

match_var(vname, envp) == match_from(vname, envp, 1)

\* the buffer strncpy(dest, src, lim) leaves: src, cut at lim bytes, padded
\* with null bytes
strncpy(src, lim) == [i \in 1..lim |-> IF i <= Len(src) THEN src[i] ELSE NUL]

\* trunc_strncpy: the buffer, and non-zero (TRUE) if it is not terminated
trunc_strncpy(src, lim) ==
  [dest |-> strncpy(src, lim), trunc |-> strncpy(src, lim)[lim] # NUL]

\* the least and the greatest member of a non-empty set of positions
First(S) == CHOOSE i \in S : \A j \in S : i <= j
Last(S) == CHOOSE i \in S : \A j \in S : j <= i

\* the positions of the character c in s
Positions(s, c) == {i \in 1..Len(s) : s[i] = c}

\* the C string held in a buffer: the bytes before the first null byte
CStr(buf) ==
  IF Positions(buf, NUL) = {} THEN buf
  ELSE SubSeq(buf, 1, First(Positions(buf, NUL)) - 1)

\* strrchr: the position of the last c in s, 0 for NULL
strrchr(s, c) == IF Positions(s, c) = {} THEN 0 ELSE Last(Positions(s, c))

\* the name of an environment entry: the bytes before the first '='
EntryName(e) ==
  IF Positions(e, "=") = {} THEN e
  ELSE SubSeq(e, 1, First(Positions(e, "=")) - 1)

\* getenv of the C library: the value of the first entry with that name
RECURSIVE getenv_from(_, _, _)
getenv_from(name, env, i) ==
  IF i > Len(env) THEN NULL
  ELSE IF /\ Len(env[i]) > Len(name)
          /\ SubSeq(env[i], 1, Len(name)) = name
          /\ env[i][Len(name) + 1] = "="
       THEN Ptr(SubSeq(env[i], Len(name) + 2, Len(env[i])))
       ELSE getenv_from(name, env, i + 1)

getenv(name, env) == getenv_from(name, env, 1)

Range(s) == {s[i] : i \in 1..Len(s)}

----------------------------------------------------------------------------
(* The inherited environment *)

Entry(name, value) == name \o << "=" >> \o value

PathOfLen(n) == << "/" >> \o Rep("a", n - 1)

\* the entries an inherited environment is drawn from
EnvPool ==
  << Entry(UNIX_BIND_VAR, PathOfLen(SunPathSize - 1)),
     Entry(UNIX_BIND_VAR, PathOfLen(SunPathSize)),
     Entry(UNIX_BIND_VAR, PathOfLen(SunPathSize + 1)),
     Entry(INET_BIND_VAR, << "h", ":", "8", "0" >>),
     Entry(INET_BIND_VAR, << "[", ":", ":", "1", "]", ":", "8", "0" >>),
     Entry(INET_BIND_VAR, << "8", "0" >>),
     Entry(INET_BIND_VAR, << "[", ":", ":", "1", "]" >>),
     Entry(INET_BIND_VAR, Rep("9", InetBufSize)),
     Entry(UNIX_PEER_VAR, << >>),
     Entry(UNIX_PEER_VAR, << "*" >>),
     Entry(SubSeq(UNIX_BIND_VAR, 1, 14), << "x" >>),
     Entry(UNIX_BIND_VAR \o << "X" >>, << "y" >>),
     Entry(<< "P", "A", "T", "H" >>, << "/", "b", "i", "n" >>) >>

\* the entries of EnvPool at the positions S, in the pool's order
RECURSIVE PoolSeq(_, _)
PoolSeq(S, i) ==
  IF i > Len(EnvPool) THEN << >>
  ELSE (IF i \in S THEN << EnvPool[i] >> ELSE << >>) \o PoolSeq(S, i + 1)

Environments ==
  { PoolSeq(S, 1) : S \in { T \in SUBSET (1..Len(EnvPool)) : Cardinality(T) <= MaxEnv } }

\* the file-creation masks the program may be started with: 077 and 022
Umasks == { GroupBits \cup OtherBits, {"S_IWGRP", "S_IWOTH"} }

\* the exit codes a worker is made to exit with
ExitCodes == {0, 7, 255}

\* the signals a worker is killed by: SIGKILL, SIGTERM
FatalSignals == {9, SIGTERM}

Errnos == {"EACCES", "EADDRINUSE"}

Families == {"AF_INET", "AF_INET6"}

----------------------------------------------------------------------------
(* State *)

VARIABLES
  environ,      \* the inherited environment, a sequence of entries
  umask,        \* the inherited file-creation mask, a set of permission bits
  baddr_un,     \* the variable baddr_un: NULL or the value of FASTCGI4J_UNIX_BIND
  baddr_in,     \* the variable baddr_in: NULL or the value of FASTCGI4J_INET_BIND
  fds,          \* the main process's descriptor table: fd -> "tty" | "sock"
  pc,           \* where the main process is, or how it ended
  supExit,      \* the main process's exit status, -1 while it has none
  supErr,       \* the diagnostic it printed, "" for none
  sock,         \* the variable sock
  sockState,    \* "none", "unbound", "bound", "listening", "closed"
  nsockets,     \* how many sockets the process has created
  boundPath,    \* the path bind() was given, NULL if none
  pathExists,   \* the rendezvous path exists in the filesystem
  pathMode,     \* its permission bits
  removeCount,  \* calls of remove() on the rendezvous path
  node,         \* name resolution's node argument (NULL or a string)
  service,      \* name resolution's service argument
  res,          \* the candidate list of getaddrinfo (address families)
  ptr,          \* the candidate the loop is at
  mom,          \* which step failed last: 1 socket, 2 bind
  fam,          \* the family of the last candidate tried
  errno,        \* errno, "" when not set by a modelled call
  attempt,      \* history: the last candidate tried, how far it got, its error
  sigBlocked,   \* the interest set is blocked
  sigfd,        \* the signal descriptor is open
  pending,      \* signals of the interest set pending for the supervisor
  child,        \* "none", "launching", "running", "stopped", "zombie", "reaped"
  childStat,    \* the child's wait status, -1 while it has none
  childPending, \* signals sent to the child and not yet acted on
  reapCount,    \* waits that returned the child's process id
  childFds,     \* the child's descriptor table, inherited at fork
  workerEnv     \* the environment execve passed on, NULL before that

confVars == << environ, umask, baddr_un, baddr_in >>
sockVars == << sock, sockState, nsockets, fds >>
pathVars == << boundPath, pathExists, pathMode, removeCount >>
inetVars == << node, service, res, ptr, mom, fam, errno, attempt >>
sigVars == << sigBlocked, sigfd, pending >>
childVars == << child, childStat, childPending, reapCount, childFds, workerEnv >>
exitVars == << supExit, supErr >>

\* The single-byte writeSocket of native.c (lines 278-288), called by the
\* Java side of the worker
VARIABLES
  wpc,          \* "idle" before the call, "loop" inside for ( ; ; )
  nb,           \* char nb = b
  attempts,     \* calls of send() made by this call of writeSocket
  wire,         \* the bytes send() has put on the socket
  thrown        \* the errno of the pending Java exception, "" when none

\* The single-byte readSocket of native.c (lines 345-357)
VARIABLES
  charSigned,   \* whether plain char is a signed type in this build
  rpc,          \* "idle" before the call, "returned" after it
  rgot,         \* what recv() delivered: a byte, end of stream or an error
  rret          \* the jint readSocket returned

readVars == << charSigned, rpc, rgot, rret >>

nativeVars == << wpc, nb, attempts, wire, thrown, readVars >>

mainVars == << confVars, pc, sockVars, pathVars, inetVars, sigVars, childVars, exitVars >>

vars == << mainVars, nativeVars >>

\* a variant that looks at the network-endpoint variable first
Mode_InetFirst ==
  IF baddr_in # NULL THEN "inet"
  ELSE IF baddr_un # NULL THEN "unix"
  ELSE "none"

\* lines 98, 132, 208: which branch the program takes
Mode ==
  IF baddr_un # NULL THEN "unix"
  ELSE IF baddr_in # NULL THEN "inet"
  ELSE "none"

\* writeSocket has not been called
NativeIdle ==
  /\ wpc = "idle"
  /\ nb = 0
  /\ attempts = 0
  /\ wire = << >>
  /\ thrown = ""
  /\ rpc = "idle"
  /\ rgot = [kind |-> "none", byte |-> 0]
  /\ rret = 0

\* the launcher before main runs
LauncherInit ==
  /\ environ \in Environments
  /\ umask \in Umasks
  /\ baddr_un = getenv(UNIX_BIND_VAR, environ)
  /\ baddr_in = getenv(INET_BIND_VAR, environ)
  /\ fds \in { [n \in {1, 2} |-> "tty"], [n \in {0, 1, 2} |-> "tty"] }
  /\ pc = "start"
  /\ supExit = -1
  /\ supErr = ""
  /\ sock = -1
  /\ sockState = "none"
  /\ nsockets = 0
  /\ boundPath = NULL
  /\ pathExists = FALSE
  /\ pathMode = {}
  /\ removeCount = 0
  /\ node = NULL
  /\ service = << >>
  /\ res = << >>
  /\ ptr = 1
  /\ mom = 0
  /\ fam = ""
  /\ errno = ""
  /\ attempt = [idx |-> 0, step |-> "", err |-> ""]
  /\ sigBlocked = FALSE
  /\ sigfd = FALSE
  /\ pending = {}
  /\ child = "none"
  /\ childStat = -1
  /\ childPending = {}
  /\ reapCount = 0
  /\ childFds = << >>
  /\ workerEnv = NULL

\* the launcher never converts a char to an integer: one build stands for all
Init ==
  /\ NativeIdle
  /\ charSigned = TRUE
  /\ LauncherInit

----------------------------------------------------------------------------
(* Helpers of the actions *)

\* the process has not ended and has not become the worker
Alive == pc \notin {"exited", "aborted", "execd"}

\* a variant that prints the diagnostic and returns 0
Return_Success(status, msg) ==
  /\ pc' = "exited"
  /\ supExit' = 0
  /\ supErr' = msg

\* return from main with a status, after printing a diagnostic
Return(status, msg) ==
  /\ pc' = "exited"
  /\ supExit' = status
  /\ supErr' = msg

\* socket(): the lowest free descriptor
LowestFree(tab) == CHOOSE n \in 0..3 : n \notin DOMAIN tab /\ \A m \in 0..(n - 1) : m \in DOMAIN tab

OpenSock(tab) == [n \in DOMAIN tab \cup {LowestFree(tab)} |->
                    IF n = LowestFree(tab) THEN "sock" ELSE tab[n]]

\* close(fd)
Close(tab, fd) == [n \in DOMAIN tab \ {fd} |-> tab[n]]

\* a variant that leaves the target descriptor as it was
Dup2_NotInstalled(tab, old, new) == tab

\* dup2(old, new)
Dup2(tab, old, new) == [n \in DOMAIN tab \cup {new} |-> IF n = new THEN tab[old] ELSE tab[n]]

----------------------------------------------------------------------------
(* Filesystem-path mode: lines 98-131 *)

\* line 100-105: create the UNIX-domain socket
UnixSocket ==
  /\ pc = "start"
  /\ Mode = "unix"
  /\ \/ /\ sock' = LowestFree(fds)
        /\ fds' = OpenSock(fds)
        /\ sockState' = "unbound"
        /\ nsockets' = nsockets + 1
        /\ pc' = "un_bind"
        /\ UNCHANGED exitVars
     \/ /\ Return(EXIT_FAILURE, "PF_UNIX socket")
        /\ UNCHANGED sockVars
  /\ UNCHANGED << nativeVars, confVars, pathVars, inetVars, sigVars, childVars >>

\* a variant that lets a path one byte longer than the buffer through
PathTooLong_Lenient(path) == Len(path) > SunPathSize + 1

\* line 113: the copy of the path into sun_path overflowed
PathTooLong(path) == trunc_strncpy(path, SunPathSize).trunc

\* line 118: the path bind() reads out of sun_path
SunPath(path) == CStr(trunc_strncpy(path, SunPathSize).dest)

\* a variant that never widens the permissions
ModeAfterBind_NoChmod(mask, peers) == AllBits \ mask

\* lines 123-131: the mode of the path bind() created under the mask, after
\* the chmod made when the peer variable is set
ModeAfterBind(mask, peers) ==
  IF peers # NULL THEN AllBits ELSE AllBits \ mask

\* lines 107-131: check the path's length, bind, widen the permissions
UnixBind ==
  /\ pc = "un_bind"
  /\ \/ /\ PathTooLong(Deref(baddr_un))
        /\ Return(EXIT_FAILURE, "path too long")
        /\ UNCHANGED << sockVars, pathVars >>
     \/ /\ ~PathTooLong(Deref(baddr_un))
        /\ \/ /\ pathMode' = ModeAfterBind(umask, getenv(UNIX_PEER_VAR, environ))
              /\ boundPath' = Ptr(SunPath(Deref(baddr_un)))
              /\ pathExists' = TRUE
              /\ sockState' = "bound"
              /\ pc' = "listen"
              /\ UNCHANGED << sock, nsockets, fds, removeCount, exitVars >>
           \/ /\ Return(EXIT_FAILURE, "bind")
              /\ UNCHANGED << sockVars, pathVars >>
  /\ UNCHANGED << nativeVars, confVars, inetVars, sigVars, childVars >>

----------------------------------------------------------------------------
(* Network-endpoint mode: lines 132-207 *)

\* lines 135-154: split the endpoint string into node and service
ParseEndpoint(addr) ==
  LET cp == trunc_strncpy(addr, InetBufSize)
      buf == CStr(cp.dest)
      col == strrchr(buf, ":")
      brac == strrchr(buf, "]")
  IN  IF cp.trunc
      THEN [err |-> "address too long", node |-> NULL, service |-> << >>]
      ELSE IF col = 0 \/ (brac # 0 /\ brac > col)
      THEN IF brac # 0 /\ At(buf, 1) = "["
           THEN [err |-> "port required", node |-> NULL, service |-> << >>]
           ELSE [err |-> "", node |-> NULL, service |-> buf]
      ELSE [err |-> "",
            node |-> Ptr(SubSeq(buf, 1, col - 1)),
            service |-> SubSeq(buf, col + 1, Len(buf))]

\* lines 132-154
InetParse ==
  /\ pc = "start"
  /\ Mode = "inet"
  /\ LET p == ParseEndpoint(Deref(baddr_in))
     IN  IF p.err # ""
         THEN /\ Return(EXIT_FAILURE, p.err)
              /\ UNCHANGED inetVars
         ELSE /\ node' = p.node
              /\ service' = p.service
              /\ pc' = "in_resolve"
              /\ UNCHANGED << res, ptr, mom, fam, errno, attempt, exitVars >>
  /\ UNCHANGED << nativeVars, confVars, sockVars, pathVars, sigVars, childVars >>

\* lines 163-175: name resolution
InetResolve ==
  /\ pc = "in_resolve"
  /\ \/ /\ Return(EXIT_FAILURE, "getaddrinfo")
        /\ UNCHANGED inetVars
     \/ /\ Return(EXIT_FAILURE, "unknown address")
        /\ UNCHANGED inetVars
     \/ /\ \E n \in 1..MaxCandidates : res' \in [1..n -> Families]
        /\ ptr' = 1
        /\ mom' = 0
        /\ fam' = ""
        /\ pc' = "in_try"
        /\ UNCHANGED << node, service, errno, attempt, exitVars >>
  /\ UNCHANGED << nativeVars, confVars, sockVars, pathVars, sigVars, childVars >>

\* line 183: bind() is given sizeof *ptr->ai_addr, the 16 bytes of a struct
\* sockaddr, as the address length. That is the length of an IPv4 address;
\* for an IPv6 socket it is shorter than a sockaddr_in6 and bind() fails
\* with EINVAL.
BindMaySucceed(family) == family = "AF_INET"

BindErrnos(family) == IF family = "AF_INET" THEN Errnos ELSE {"EINVAL"}

\* a variant without the save and restore of errno around close()
ErrnoAfterCleanup_Clobbered(ec) == "EIO"

\* lines 184-186: int ec = errno; close(sock), sock = -1; errno = ec;
ErrnoAfterCleanup(ec) == ec

\* lines 177-182: the loop takes the next candidate and creates a socket
InetSocket ==
  /\ pc = "in_try"
  /\ ptr <= Len(res)
  /\ fam' = res[ptr]
  /\ \/ \* socket() fails: continue
        /\ \E e \in Errnos :
             /\ errno' = e
             /\ attempt' = [idx |-> ptr, step |-> "socket", err |-> e]
        /\ mom' = 1
        /\ ptr' = ptr + 1
        /\ pc' = "in_try"
        /\ UNCHANGED sockVars
     \/ /\ sock' = LowestFree(fds)
        /\ fds' = OpenSock(fds)
        /\ sockState' = "unbound"
        /\ nsockets' = nsockets + 1
        /\ attempt' = [idx |-> ptr, step |-> "created", err |-> ""]
        /\ pc' = "in_bind"
        /\ UNCHANGED << mom, ptr, errno >>
  /\ UNCHANGED << nativeVars, confVars, node, service, res, pathVars, sigVars, childVars, exitVars >>

\* lines 183-192: bind the socket; on failure close it and continue, on
\* success leave the loop
InetBind ==
  /\ pc = "in_bind"
  /\ \/ /\ \E e \in BindErrnos(fam) :
             /\ errno' = ErrnoAfterCleanup(e)
             /\ attempt' = [idx |-> ptr, step |-> "bind", err |-> e]
        /\ fds' = Close(fds, sock)
        /\ sock' = -1
        /\ sockState' = "none"
        /\ mom' = 2
        /\ ptr' = ptr + 1
        /\ pc' = "in_try"
     \/ /\ BindMaySucceed(fam)
        /\ sockState' = "bound"
        /\ attempt' = [idx |-> ptr, step |-> "ok", err |-> ""]
        /\ pc' = "listen"
        /\ UNCHANGED << sock, fds, mom, ptr, errno >>
  /\ UNCHANGED << nativeVars, confVars, node, service, res, fam, nsockets, pathVars, sigVars,
                  childVars, exitVars >>

\* lines 193-207: the list ended without a bound socket
InetExhausted ==
  /\ pc = "in_try"
  /\ ptr > Len(res)
  /\ sock < 0
  /\ IF mom = 0 THEN pc' = "aborted" /\ UNCHANGED exitVars
     ELSE Return(EXIT_FAILURE, IF mom = 1 THEN "socket" ELSE "bind")
  /\ UNCHANGED << nativeVars, confVars, sockVars, pathVars, inetVars, sigVars, childVars >>

\* lines 208-212: neither variable is set
NoBindTarget ==
  /\ pc = "start"
  /\ Mode = "none"
  /\ Return(EXIT_FAILURE, "must specify")
  /\ UNCHANGED << nativeVars, confVars, sockVars, pathVars, inetVars, sigVars, childVars >>

----------------------------------------------------------------------------
(* Listening and descriptor installation: lines 214-231 *)

\* lines 215-219
Listen ==
  /\ pc = "listen"
  /\ \/ /\ sockState' = "listening"
        /\ pc' = "dup"
        /\ UNCHANGED exitVars
     \/ /\ Return(EXIT_FAILURE, "listen")
        /\ UNCHANGED sockState
  /\ UNCHANGED << nativeVars, confVars, sock, nsockets, fds, pathVars, inetVars, sigVars, childVars >>

\* a variant that forks without setting up the signals first
AfterInstall_NoSignalSetup == IF baddr_un # NULL THEN "fork" ELSE "launch"

\* line 233: where the program goes once the socket is descriptor 0
AfterInstall == IF baddr_un # NULL THEN "sigblock" ELSE "launch"

\* lines 223-231
InstallDescriptor ==
  /\ pc = "dup"
  /\ IF sock # 0
     THEN \/ /\ fds' = Close(Dup2(fds, sock, 0), sock)
             /\ sock' = 0
             /\ pc' = AfterInstall
             /\ UNCHANGED exitVars
          \/ /\ Return(EXIT_FAILURE, "dup2")
             /\ UNCHANGED << sock, fds >>
     ELSE /\ pc' = AfterInstall
          /\ UNCHANGED << sock, fds, exitVars >>
  /\ UNCHANGED << nativeVars, confVars, sockState, nsockets, pathVars, inetVars, sigVars, childVars >>

----------------------------------------------------------------------------
(* The supervisor: lines 233-307 *)

\* line 259: the process id fork() returns to the parent
ChildPid == 100

ChildLive == child \in {"launching", "running", "stopped"}

\* the kernel raises SIGCHLD for the parent when the child changes state
NotifyParent == IF Alive THEN pending \cup {SIGCHLD} ELSE pending

\* a variant that never sends the signal
Kill_NotSent(sig) == childPending

\* kill(chid, sig): the signal becomes pending for a child that still runs
Kill(sig) == IF ChildLive THEN childPending \cup {sig} ELSE childPending

\* lines 239-249
BlockSignals ==
  /\ pc = "sigblock"
  /\ \/ /\ sigBlocked' = TRUE
        /\ pc' = "signalfd"
        /\ UNCHANGED exitVars
     \/ /\ Return(EXIT_FAILURE, "can't block signals")
        /\ UNCHANGED sigBlocked
  /\ UNCHANGED << nativeVars, confVars, sockVars, pathVars, inetVars, sigfd, pending, childVars >>

\* lines 251-256
OpenSignalFd ==
  /\ pc = "signalfd"
  /\ \/ /\ sigfd' = TRUE
        /\ pc' = "fork"
        /\ UNCHANGED exitVars
     \/ /\ Return(EXIT_FAILURE, "can't create signal fd")
        /\ UNCHANGED sigfd
  /\ UNCHANGED << nativeVars, confVars, sockVars, pathVars, inetVars, sigBlocked, pending, childVars >>

\* lines 259-264
Fork ==
  /\ pc = "fork"
  /\ \/ /\ child' = "launching"
        /\ childFds' = fds
        /\ pc' = "parent_close"
        /\ UNCHANGED exitVars
     \/ /\ Return(EXIT_FAILURE, "can't fork")
        /\ UNCHANGED << child, childFds >>
  /\ UNCHANGED << nativeVars, confVars, sockVars, pathVars, inetVars, sigVars,
                  childStat, childPending, reapCount, workerEnv >>

\* line 268: the parent closes its copy of the socket
ParentClose ==
  /\ pc = "parent_close"
  /\ fds' = Close(fds, sock)
  /\ pc' = "read"
  /\ UNCHANGED << nativeVars, confVars, sock, sockState, nsockets, pathVars, inetVars, sigVars,
                  childVars, exitVars >>

\* a variant without the break of line 289: SIGINT and SIGHUP fall through
\* into the SIGCHLD case
Dispatch_FallThrough(signo) ==
  CASE signo = SIGTERM -> "forward"
    [] signo \in {SIGINT, SIGHUP, SIGCHLD} -> "reap"
    [] OTHER -> "nothing"

\* lines 280-291: what the switch does with a signal read
Dispatch(signo) ==
  CASE signo = SIGTERM -> "forward"
    [] signo \in {SIGINT, SIGHUP} -> "nothing"
    [] signo = SIGCHLD -> "reap"
    [] OTHER -> "nothing"

\* lines 272-291: read one signal and act on it
ReadSignal ==
  /\ pc = "read"
  /\ \/ \* the read fails
        /\ childPending' = Kill(SIGTERM)
        /\ Return(EXIT_FAILURE, "can't read signal")
        /\ UNCHANGED pending
     \/ \E signo \in pending :
          /\ pending' = pending \ {signo}
          /\ childPending' = IF Dispatch(signo) = "forward" THEN Kill(signo)
                             ELSE childPending
          /\ pc' = IF Dispatch(signo) = "reap" THEN "wait" ELSE "read"
          /\ UNCHANGED exitVars
  /\ UNCHANGED << nativeVars, confVars, sockVars, pathVars, inetVars, sigBlocked, sigfd,
                  child, childStat, reapCount, childFds, workerEnv >>

\* the wait status of a child that called exit(code), of one killed by sig
W_EXITCODE(code) == (code % 256) * 256
W_TERMSIG(sig) == sig

WIFEXITED(stat) == stat % 128 = 0

\* a variant that takes the low byte of the status, without the shift
WEXITSTATUS_LowByte(stat) == stat % 256

\* line 303
WEXITSTATUS(stat) == (stat \div 256) % 256

\* what waitpid(chid, &stat, WNOHANG) may return: the child's id and status
\* once it has terminated, 0 while it has not, or an error
WaitpidResults ==
  (IF child = "zombie"
   THEN { [rc |-> ChildPid, err |-> "", stat |-> childStat] }
   ELSE IF ChildLive THEN { [rc |-> 0, err |-> "", stat |-> -1] } ELSE {})
  \cup { [rc |-> -1, err |-> e, stat |-> -1] : e \in {"EINTR", "ECHILD"} }

\* the values the variable stat may hold after the call: the status the
\* kernel stored, or whatever the uninitialised variable held
StatRead(w) == IF w.rc = ChildPid THEN {w.stat} ELSE {0, W_EXITCODE(255)}

\* a variant without the assertion of line 301: any result that is not an
\* error is taken for the child's
ReapBranch_NoAssert(rc, err) ==
  IF rc < 0
  THEN IF err = "EINTR" THEN [remove |-> FALSE, then |-> "retry"]
       ELSE [remove |-> FALSE, then |-> "fail"]
  ELSE [remove |-> TRUE, then |-> "return"]

\* a variant that removes the path before it looks at what waitpid returned,
\* and waits again while the child has not terminated
ReapBranch_RemoveFirst(rc, err) ==
  IF rc < 0
  THEN IF err = "EINTR" THEN [remove |-> FALSE, then |-> "retry"]
       ELSE [remove |-> FALSE, then |-> "fail"]
  ELSE IF rc # ChildPid
  THEN [remove |-> TRUE, then |-> "retry"]
  ELSE [remove |-> TRUE, then |-> "return"]

\* lines 295-303: what the code does with waitpid's result; remove says
\* whether remove() is called, then what follows
ReapBranch(rc, err) ==
  IF rc < 0
  THEN IF err = "EINTR" THEN [remove |-> FALSE, then |-> "retry"]
       ELSE [remove |-> FALSE, then |-> "fail"]
  ELSE IF rc # ChildPid
  THEN [remove |-> FALSE, then |-> "abort"]
  ELSE [remove |-> TRUE, then |-> "return"]

\* line 302: remove(baddr_un)
Remove(path) == IF boundPath = Ptr(path) THEN FALSE ELSE pathExists

\* lines 292-304: reap the child, remove the path, return its status
Waitpid ==
  /\ pc = "wait"
  /\ \E w \in WaitpidResults :
       LET b == ReapBranch(w.rc, w.err)
       IN  /\ IF w.rc = ChildPid
              THEN child' = "reaped" /\ reapCount' = reapCount + 1
              ELSE UNCHANGED << child, reapCount, childFds >>
           /\ IF b.remove
              THEN /\ pathExists' = Remove(Deref(baddr_un))
                   /\ removeCount' = removeCount + 1
              ELSE UNCHANGED << pathExists, removeCount >>
           /\ CASE b.then = "retry" -> pc' = "wait" /\ UNCHANGED exitVars
                [] b.then = "fail" -> Return(EXIT_FAILURE, "waitpid")
                [] b.then = "abort" -> pc' = "aborted" /\ UNCHANGED exitVars
                [] b.then = "return" ->
                     \E stat \in StatRead(w) : Return(WEXITSTATUS(stat), "")
  /\ UNCHANGED << nativeVars, confVars, sockVars, boundPath, pathMode, inetVars, sigVars,
                  childStat, childPending, childFds, workerEnv >>

----------------------------------------------------------------------------
(* The launcher: lines 310-334 *)

\* lines 318-323: the entries copied to the worker's environment
FilterEnv(env) ==
  SelectSeq(env, LAMBDA e : ~match_var(UNIX_BIND_VAR, e) /\ ~match_var(INET_BIND_VAR, e))

\* network-endpoint mode: the main process becomes the worker
SupLaunch ==
  /\ pc = "launch"
  /\ \/ /\ workerEnv' = Ptr(FilterEnv(environ))
        /\ pc' = "execd"
        /\ UNCHANGED exitVars
     \/ /\ Return(EXIT_FAILURE, "could not exec command")
        /\ UNCHANGED workerEnv
  /\ UNCHANGED << nativeVars, confVars, sockVars, pathVars, inetVars, sigVars,
                  child, childStat, childPending, reapCount, childFds >>

\* filesystem-path mode: the child becomes the worker, or exits on failure
ChildLaunch ==
  /\ child = "launching"
  /\ \/ /\ workerEnv' = Ptr(FilterEnv(environ))
        /\ child' = "running"
        /\ UNCHANGED << childStat, pending >>
     \/ /\ child' = "zombie"
        /\ childStat' = W_EXITCODE(EXIT_FAILURE)
        /\ pending' = NotifyParent
        /\ UNCHANGED workerEnv
  /\ UNCHANGED << nativeVars, confVars, pc, sockVars, pathVars, inetVars, sigBlocked, sigfd,
                  childPending, reapCount, childFds, exitVars >>

----------------------------------------------------------------------------
(* The worker and the rest of the system *)

\* the worker exits with a code
WorkerExit ==
  /\ child = "running"
  /\ \E code \in ExitCodes : childStat' = W_EXITCODE(code)
  /\ child' = "zombie"
  /\ pending' = NotifyParent
  /\ UNCHANGED << nativeVars, confVars, pc, sockVars, pathVars, inetVars, sigBlocked, sigfd,
                  childPending, reapCount, childFds, workerEnv, exitVars >>

\* the child is killed by a signal
WorkerKilled ==
  /\ ChildLive
  /\ \E sig \in FatalSignals : childStat' = W_TERMSIG(sig)
  /\ child' = "zombie"
  /\ pending' = NotifyParent
  /\ UNCHANGED << nativeVars, confVars, pc, sockVars, pathVars, inetVars, sigBlocked, sigfd,
                  childPending, reapCount, childFds, workerEnv, exitVars >>

\* the worker is stopped, or continued: the parent is notified of both
WorkerStop ==
  /\ child = "running"
  /\ child' = "stopped"
  /\ pending' = NotifyParent
  /\ UNCHANGED << nativeVars, confVars, pc, sockVars, pathVars, inetVars, sigBlocked, sigfd,
                  childStat, childPending, reapCount, childFds, workerEnv, exitVars >>

WorkerCont ==
  /\ child = "stopped"
  /\ child' = "running"
  /\ pending' = NotifyParent
  /\ UNCHANGED << nativeVars, confVars, pc, sockVars, pathVars, inetVars, sigBlocked, sigfd,
                  childStat, childPending, reapCount, childFds, workerEnv, exitVars >>

\* the worker handles or ignores a signal the supervisor sent it
WorkerHandle ==
  /\ child = "running"
  /\ childPending # {}
  /\ childPending' = {}
  /\ UNCHANGED << nativeVars, confVars, pc, sockVars, pathVars, inetVars, sigVars,
                  child, childStat, reapCount, childFds, workerEnv, exitVars >>

\* someone sends the supervisor a signal of the interest set
SendSignal ==
  /\ Alive
  /\ sigBlocked
  /\ \E sig \in Interest : pending' = pending \cup {sig}
  /\ UNCHANGED << nativeVars, confVars, pc, sockVars, pathVars, inetVars, sigBlocked, sigfd,
                  childVars, exitVars >>

----------------------------------------------------------------------------

Next ==
  \/ UnixSocket
  \/ UnixBind
  \/ InetParse
  \/ InetResolve
  \/ InetSocket
  \/ InetBind
  \/ InetExhausted
  \/ NoBindTarget
  \/ Listen
  \/ InstallDescriptor
  \/ BlockSignals
  \/ OpenSignalFd
  \/ Fork
  \/ ParentClose
  \/ ReadSignal
  \/ Waitpid
  \/ SupLaunch
  \/ ChildLaunch
  \/ WorkerExit
  \/ WorkerKilled
  \/ WorkerStop
  \/ WorkerCont
  \/ WorkerHandle
  \/ SendSignal

Spec == Init /\ [][Next]_vars

----------------------------------------------------------------------------
(* native.c, lines 278-288: writeSocket(int fd, int b) *)

\* line 282: char nb = b keeps the low eight bits of the jint
ToChar(b) == b % 256

\* lines 280-282: the call, with any jint around the byte range
writeSocket_Call ==
  /\ wpc = "idle"
  /\ rpc = "idle"
  /\ \E b \in -1..256 : nb' = ToChar(b)
  /\ wpc' = "loop"
  /\ UNCHANGED << attempts, wire, thrown, readVars, mainVars >>

\* lines 283-287: one round of for ( ; ; ): send() and, when it fails,
\* throwErrno(), which leaves a pending exception and returns; nothing in
\* the loop breaks or returns
writeSocket_Send ==
  /\ wpc = "loop"
  /\ attempts < MaxSends
  /\ attempts' = attempts + 1
  /\ \/ /\ wire' = Append(wire, nb)
        /\ UNCHANGED thrown
     \/ /\ \E e \in {"EPIPE", "ECONNRESET"} : thrown' = e
        /\ UNCHANGED wire
  /\ wpc' = "loop"
  /\ UNCHANGED << nb, readVars, mainVars >>

\* the process that loaded the library: the launcher's state plays no part
\* line 349: the value of char b holding the received byte v; plain char is
\* signed or unsigned as the platform's ABI has it
CharValue(v) == IF charSigned /\ v >= 128 THEN v - 256 ELSE v

\* line 356: (unsigned) b, the 32-bit two's complement pattern of the int
\* value, kept as its two 16-bit halves
ToUnsigned(c) == [hi |-> (c \div 2 ^ 16) % 2 ^ 16, lo |-> c % 2 ^ 16]

\* line 356: the unsigned value returned as jint, a 32-bit signed int
ToJint(u) ==
  IF u.hi >= 2 ^ 15 THEN (u.hi - 2 ^ 16) * 2 ^ 16 + u.lo
  ELSE u.hi * 2 ^ 16 + u.lo

\* lines 345-357: readSocket(int fd), called while no write is under way
readSocket ==
  /\ rpc = "idle"
  /\ wpc = "idle"
  /\ \/ \* rc < 0: throwErrno, return -1
        /\ \E e \in {"ECONNRESET", "EBADF"} : thrown' = e
        /\ rgot' = [kind |-> "error", byte |-> 0]
        /\ rret' = -1
     \/ \* rc == 0: end of stream
        /\ rgot' = [kind |-> "eof", byte |-> 0]
        /\ rret' = -1
        /\ UNCHANGED thrown
     \/ \* one byte received
        \E v \in 0..255 :
          /\ rgot' = [kind |-> "byte", byte |-> v]
          /\ rret' = ToJint(ToUnsigned(CharValue(v)))
          /\ UNCHANGED thrown
  /\ rpc' = "returned"
  /\ UNCHANGED << wpc, nb, attempts, wire, charSigned, mainVars >>

NativeInit ==
  /\ NativeIdle
  /\ charSigned \in BOOLEAN
  /\ LauncherInit
  /\ environ = << >>
  /\ umask = GroupBits \cup OtherBits
  /\ DOMAIN fds = {0, 1, 2}

NativeNext ==
  \/ writeSocket_Call
  \/ writeSocket_Send
  \/ readSocket

NativeSpec == NativeInit /\ [][NativeNext]_vars

----------------------------------------------------------------------------
(* Properties *)

\* the child has terminated by calling exit, resp. by a signal
ChildTerminated == child \in {"zombie", "reaped"}
ChildExited == ChildTerminated /\ WIFEXITED(childStat)
ChildSignalled == ChildTerminated /\ ~WIFEXITED(childStat)

C2_SignalledChildDistinguished ==
  (child = "reaped" /\ ChildSignalled) =>
    /\ removeCount = 1
    /\ ~pathExists
    /\ pc = "exited"
    /\ supExit # 0

\* C3: remove() is called on the rendezvous path only once waitpid has
\* returned the process id of the terminated child: while the child has not
\* been reaped no removal has happened and a bound path is still there.
C3_RemoveOnlyAfterReap ==
  /\ removeCount > 0 => (child = "reaped" /\ reapCount = 1)
  /\ (boundPath # NULL /\ child # "reaped") => pathExists

C3_Witness ==
  /\ removeCount = 1
  /\ reapCount = 1
  /\ ChildSignalled
  /\ ~pathExists

\* C4: whatever signals are delivered to the supervisor during the wait loop,
\* the child is reaped at most once and remove() is called at most once.
C4_AtMostOnce == reapCount <= 1 /\ removeCount <= 1

\* the supervisor has cleaned up with a terminate signal forwarded to the
\* child before, and every signal of the interest set delivered again since
C4_Witness ==
  /\ reapCount = 1
  /\ removeCount = 1
  /\ SIGTERM \in childPending
  /\ pending = Interest

\* C5 (as claimed): when the supervisor has terminated and no worker is
\* alive, the rendezvous path it created does not exist.
C5_PathNeverOutlivesWorker ==
  (pc \in {"exited", "aborted"} /\ ~ChildLive) => ~pathExists

\* C6 (as claimed): the environment passed to the worker image is, as a set
\* of entries, the inherited environment without the entries named
\* FASTCGI4J_UNIX_BIND and FASTCGI4J_INET_BIND.
C6_WorkerEnvFiltered ==
  workerEnv # NULL =>
    Range(Deref(workerEnv)) =
      {e \in Range(environ) : EntryName(e) \notin {UNIX_BIND_VAR, INET_BIND_VAR}}

\* the split of a network-endpoint string C7 claims
C7_ClaimedSplit(s) ==
  IF At(s, 1) = "[" /\ Positions(s, "]") # {}
  THEN LET b == First(Positions(s, "]"))
       IN  IF b = Len(s)
           THEN [err |-> "port required", node |-> NULL, service |-> << >>]
           ELSE [err |-> "", node |-> Ptr(SubSeq(s, 2, b - 1)),
                 service |-> SubSeq(s, b + 2, Len(s))]
  ELSE IF Positions(s, ":") # {}
  THEN [err |-> "", node |-> Ptr(SubSeq(s, 1, Last(Positions(s, ":")) - 1)),
        service |-> SubSeq(s, Last(Positions(s, ":")) + 1, Len(s))]
  ELSE [err |-> "", node |-> NULL, service |-> s]

\* C7 (as claimed): once a network-endpoint string that fits the buffer has
\* been parsed, the node and service handed to name resolution are the host
\* (the literal between the brackets for [v6lit]:service, none for a bare
\* service) and the service; [v6lit] alone is rejected with port required.
C7_EndpointSplit ==
  (Mode = "inet" /\ pc # "start" /\ Len(Deref(baddr_in)) < InetBufSize) =>
    LET c == C7_ClaimedSplit(Deref(baddr_in))
    IN  IF c.err # ""
        THEN pc = "exited" /\ supErr = c.err /\ supExit = EXIT_FAILURE
        ELSE node = c.node /\ service = c.service

\* the filesystem path configured is longer than sun_path
C8_TooLong == Mode = "unix" /\ Len(Deref(baddr_un)) > SunPathSize

\* C8 (as claimed): for a path longer than sun_path the program fails with
\* path too long, binds nothing, and has created no socket at any point.
C8_NoSocketForLongPath ==
  C8_TooLong =>
    /\ nsockets = 0
    /\ boundPath = NULL
    /\ pc = "exited" => supErr = "path too long"

\* C8 (amended): for a path longer than sun_path the program exits with
\* failure without binding any path, listening, forking or launching; the
\* socket is created before the length is checked, so the exit reports path
\* too long with one unbound socket created, or the failure of socket().
C8_LongPathNeverBound ==
  C8_TooLong =>
    /\ boundPath = NULL
    /\ ~pathExists
    /\ sockState \in {"none", "unbound"}
    /\ nsockets <= 1
    /\ child = "none"
    /\ workerEnv = NULL
    /\ pc \in {"start", "un_bind", "exited"}
    /\ pc = "exited" =>
         /\ supExit = EXIT_FAILURE
         /\ supErr = IF nsockets = 1 THEN "path too long" ELSE "PF_UNIX socket"

C8_Witness ==
  /\ C8_TooLong
  /\ pc = "exited"
  /\ supErr = "path too long"
  /\ nsockets = 1

\* the worker has been launched on a rendezvous path that is still there
C9_Launched == Mode = "unix" /\ workerEnv # NULL /\ pathExists

\* C9 (as claimed): when the worker is launched the path gives no access to
\* group and other if FASTCGI4J_WEB_SERVER_ADDRS is absent, whatever the
\* file-creation mask, and full access to all if it is present.
C9_OwnerOnlyUnlessPeers ==
  C9_Launched =>
    IF getenv(UNIX_PEER_VAR, environ) = NULL
    THEN pathMode \cap (GroupBits \cup OtherBits) = {}
    ELSE pathMode = AllBits

\* C9 (amended): when the worker is launched the path has the permissions
\* bind() gave it under the file-creation mask (all bits but the mask's) if
\* FASTCGI4J_WEB_SERVER_ADDRS is absent, and read, write and execute for
\* owner, group and other if it is present, with any value.
C9_ModeFollowsMaskUnlessPeers ==
  C9_Launched =>
    pathMode = IF getenv(UNIX_PEER_VAR, environ) = NULL
               THEN AllBits \ umask
               ELSE AllBits

C9_Witness ==
  /\ C9_Launched
  /\ getenv(UNIX_PEER_VAR, environ) = NULL
  /\ "S_IRGRP" \in pathMode
  /\ "S_IWGRP" \notin pathMode

C10_Both == baddr_un # NULL /\ baddr_in # NULL
C10_Neither == baddr_un = NULL /\ baddr_in = NULL

\* the program has stopped with the configuration error, having created no
\* socket, forked no child and launched no worker
C10_ConfigError ==
  /\ nsockets = 0
  /\ child = "none"
  /\ workerEnv = NULL
  /\ pc \in {"start", "exited"}
  /\ pc = "exited" => (supExit = EXIT_FAILURE /\ supErr = "must specify")

\* C10 (as claimed): a socket is prepared only when exactly one of the two
\* variables is present; with neither, and with both, the program ends with
\* the configuration error.
C10_MutuallyExclusive == (C10_Both \/ C10_Neither) => C10_ConfigError

\* C10 (amended): a socket is prepared only when at least one of the two
\* variables is present; with neither the program ends with the
\* configuration error; with both there is no error: FASTCGI4J_UNIX_BIND
\* takes precedence and the network endpoint is never parsed or resolved.
C10_UnixTakesPrecedence ==
  /\ C10_Neither => C10_ConfigError
  /\ nsockets > 0 => ~C10_Neither
  /\ C10_Both =>
       /\ supErr # "must specify"
       /\ node = NULL /\ service = << >> /\ res = << >>
       /\ pc \notin {"in_resolve", "in_try", "launch", "execd"}
       /\ sockState # "none" => nsockets = 1

C10_Witness ==
  /\ C10_Both
  /\ child = "running"
  /\ pathExists

----------------------------------------------------------------------------
(* C11: the socket is installed on descriptor 0 before fork and execve *)

\* the table holds the socket on descriptor 0 and on no other descriptor
OnlySlotZero(tab) ==
  /\ 0 \in DOMAIN tab
  /\ tab[0] = "sock"
  /\ \A n \in DOMAIN tab \ {0} : tab[n] # "sock"

C11_AtForkAndExec ==
  /\ pc = "parent_close" => (sock = 0 /\ OnlySlotZero(fds))
  /\ child # "none" => (sockState = "listening" /\ OnlySlotZero(childFds))
  /\ pc \in {"launch", "execd"} =>
       (sockState = "listening" /\ sock = 0 /\ OnlySlotZero(fds))
  /\ workerEnv # NULL =>
       (sockState = "listening" /\ (child # "none" => OnlySlotZero(childFds)))

C11_InstallStep ==
  (pc = "dup" /\ sock = 0 /\ pc' # "dup" /\ pc' # "exited") =>
     (pc' = AfterInstall /\ UNCHANGED << sock, sockState, fds >>)

\* C11: in both modes, when the child is forked and when the worker is
\* executed the socket is bound and listening and sits on descriptor 0 with
\* the original handle closed; when the socket is already descriptor 0 the
\* installation step changes nothing.
C11_SocketOnDescriptorZero == []C11_AtForkAndExec /\ [][C11_InstallStep]_vars

\* a forked child whose parent had all three standard descriptors open, so
\* that the socket was created on descriptor 3 and moved
C11_Witness ==
  /\ child = "launching"
  /\ pc = "parent_close"
  /\ DOMAIN fds = {0, 1, 2}
  /\ fds[0] = "sock"
  /\ sockState = "listening"

----------------------------------------------------------------------------
(* C12: SIGTERM is forwarded; the supervisor ends only after a reap *)

\* the step reads a SIGTERM event from the signal descriptor
C12_ReadsTerminate ==
  /\ pc = "read"
  /\ SIGTERM \in pending
  /\ pending' = pending \ {SIGTERM}

\* the step ends the supervisor's loop
C12_SupervisorEnds ==
  /\ pc \in {"read", "wait"}
  /\ pc' \in {"exited", "aborted"}

C12_Step ==
  /\ C12_ReadsTerminate =>
       /\ pc' = "read"
       /\ childPending' = Kill(SIGTERM)
       /\ UNCHANGED << child, reapCount, pathVars, exitVars >>
  /\ C12_SupervisorEnds => (supErr' # "" \/ child' = "reaped")

\* C12: each SIGTERM event read is forwarded as SIGTERM to the child and the
\* supervisor keeps looping; apart from the exits that report a fatal error,
\* the supervisor ends only when a reap has confirmed the child's
\* termination, never merely because a signal was delivered.
C12_ForwardAndWaitForReap == [][C12_Step]_vars

----------------------------------------------------------------------------
(* C13: a SIGCHLD event with no child to reap *)

\* the supervisor is about to call waitpid while the child has not terminated
C13_NothingToReap ==
  /\ pc = "wait"
  /\ ChildLive

C13_Step ==
  (C13_NothingToReap /\ supErr' = "") =>
     /\ pc' \in {"read", "wait"}
     /\ UNCHANGED << reapCount, pathVars, exitVars >>

\* C13: when a SIGCHLD event has been read and the non-blocking waitpid finds
\* no terminated child, the supervisor retries: it does not remove the path,
\* does not exit or abort, and stays in the loop, able to reap the child
\* later (a waitpid that fails with an error is the fatal exit C18 covers).
C13_SpuriousWakeRetries == [][C13_Step]_vars

----------------------------------------------------------------------------
(* C14: no child-termination notification is lost *)

\* line 291: the read that returns the SIGCHLD event
ReadChildEvent == ReadSignal /\ pc' = "wait"

\* The supervisor is scheduled fairly: it closes its copy of the socket,
\* reads a pending SIGCHLD event and calls waitpid whenever it can.
FairSpec ==
  /\ Spec
  /\ WF_vars(ParentClose)
  /\ WF_vars(ReadChildEvent)
  /\ WF_vars(Waitpid)

C14_Cleaned ==
  /\ child = "reaped"
  /\ ~pathExists
  /\ pc = "exited"

\* C14: a child that terminates at any time after the fork is eventually
\* observed by the parent, which, scheduled fairly and unless a read or a
\* wait fails with an error, reaps it, removes the path and terminates.
C14_TerminationObserved == (child = "zombie") ~> (C14_Cleaned \/ supErr # "")

----------------------------------------------------------------------------
(* C15: signals are blocked and the signal descriptor is open before fork *)

\* C15: a child exists only when the signals of interest are blocked and
\* the signal descriptor is open; when blocking the signals or opening the
\* descriptor fails, the program has exited with failure and no child has
\* been forked.
C15_ForkAfterSignalSetup ==
  /\ pc = "fork" => (sigBlocked /\ sigfd)
  /\ child # "none" => (sigBlocked /\ sigfd)
  /\ supErr \in {"can't block signals", "can't create signal fd"} =>
       /\ pc = "exited"
       /\ supExit = EXIT_FAILURE
       /\ child = "none"
       /\ workerEnv = NULL
       /\ ~(sigBlocked /\ sigfd)

C15_Witness ==
  /\ child = "running"
  /\ sigBlocked
  /\ sigfd
  /\ pc = "read"

----------------------------------------------------------------------------
(* C16: SIGINT and SIGHUP are read and ignored *)

\* the step reads a SIGINT or a SIGHUP event from the signal descriptor
C16_ReadsInterruptOrHangup ==
  /\ pc = "read"
  /\ \E signo \in {SIGINT, SIGHUP} :
       /\ signo \in pending
       /\ pending' = pending \ {signo}

C16_Step ==
  C16_ReadsInterruptOrHangup =>
     /\ pc' = "read"
     /\ UNCHANGED << nativeVars, confVars, sockVars, pathVars, inetVars, sigBlocked, sigfd,
                     childVars, exitVars >>

\* C16: reading a SIGINT or SIGHUP event causes no action: no signal is sent
\* to the child, nothing is reaped, the path is not removed, the supervisor
\* does not exit; apart from the event being consumed the state is unchanged
\* and the supervisor goes back to reading.
C16_InterruptAndHangupIgnored == [][C16_Step]_vars

\* the supervisor about to read with both events pending and a running child
C16_Witness ==
  /\ pc = "read"
  /\ {SIGINT, SIGHUP} \subseteq pending
  /\ SIGCHLD \notin pending
  /\ child = "running"
  /\ pathExists

----------------------------------------------------------------------------
(* C17: a failed read of the signal descriptor *)

\* the step in which the read of the signal descriptor fails
C17_ReadFails ==
  /\ supErr # "can't read signal"
  /\ supErr' = "can't read signal"

C17_Step ==
  C17_ReadFails =>
     /\ pc = "read"
     /\ pc' = "exited"
     /\ supExit' = EXIT_FAILURE
     /\ ChildLive => SIGTERM \in childPending'
     /\ UNCHANGED << child, reapCount, pathVars >>

\* C17: when the read of the signal descriptor fails the supervisor sends
\* SIGTERM to the child and then exits with the failure status; it never
\* leaves on this path without the signal having been sent.
C17_ReadFailureTerminatesChild == [][C17_Step]_vars

C17_Witness ==
  /\ supErr = "can't read signal"
  /\ pc = "exited"
  /\ supExit = EXIT_FAILURE
  /\ child = "running"
  /\ childPending = {SIGTERM}

----------------------------------------------------------------------------
(* C18: every setup error is terminal *)

\* the diagnostics of the setup steps: socket creation, bind, listen, dup2,
\* signal blocking, signal descriptor, fork, name resolution, and the
\* candidate list exhausted on a socket or a bind failure
C18_SetupErrors ==
  {"PF_UNIX socket", "bind", "listen", "dup2", "can't block signals",
   "can't create signal fd", "can't fork", "getaddrinfo", "socket"}

C18_Failed == supErr \in C18_SetupErrors

C18_Terminal ==
  C18_Failed =>
     /\ pc = "exited"
     /\ supExit = EXIT_FAILURE
     /\ supExit # 0
     /\ child = "none"
     /\ workerEnv = NULL

\* C18: after the failure of a setup step the process has exited with the
\* nonzero failure status, has neither forked nor launched the worker, and
\* takes no further step.
C18_SetupErrorsAreTerminal == []C18_Terminal /\ [][~C18_Failed]_vars

C18_Witness ==
  /\ supErr = "can't fork"
  /\ pc = "exited"
  /\ sockState = "listening"
  /\ sigfd
  /\ child = "none"

----------------------------------------------------------------------------
(* C19: the loop over the candidates of getaddrinfo *)

SocketHandles == { n \in DOMAIN fds : fds[n] = "sock" }

C19_InLoop ==
  /\ pc = "in_try" =>
       /\ sock < 0
       /\ SocketHandles = {}
       /\ attempt.idx = ptr - 1
       /\ ptr > 1 => attempt.step \in {"socket", "bind"}
  /\ pc = "in_bind" =>
       /\ attempt = [idx |-> ptr, step |-> "created", err |-> ""]
       /\ SocketHandles = {sock}
       /\ fam = res[ptr]

C19_Chosen ==
  (Mode = "inet" /\ sockState \in {"bound", "listening"}) =>
     /\ attempt = [idx |-> ptr, step |-> "ok", err |-> ""]
     /\ ptr <= Len(res)
     /\ fam = res[ptr]
     /\ SocketHandles = {sock}
     /\ pc \notin {"in_try", "in_bind"}

C19_Exhausted ==
  (Mode = "inet" /\ supErr \in {"socket", "bind"}) =>
     /\ pc = "exited"
     /\ supExit = EXIT_FAILURE
     /\ attempt.idx = Len(res)
     /\ attempt.step = supErr
     /\ errno = attempt.err
     /\ fam = res[Len(res)]
     /\ SocketHandles = {}

\* C19: the candidates are tried in list order, socket creation then bind
\* for each; the socket that goes on to listen is the one bound to the first
\* candidate for which both succeed, and no later candidate is tried; the
\* socket of a candidate whose bind failed has been closed, so at most one
\* socket handle is open at any time; when every candidate fails the
\* program exits with failure and reports the last candidate's failing step
\* and error code, the bind error surviving the close of the socket.
C19_CandidateLoop ==
  /\ Cardinality(SocketHandles) <= 1
  /\ C19_InLoop
  /\ C19_Chosen
  /\ C19_Exhausted

\* the worker runs on the second candidate after the bind of the first failed
C19_Witness ==
  /\ pc = "execd"
  /\ ptr = 2
  /\ mom = 2
  /\ nsockets = 2
  /\ errno = "EADDRINUSE"

----------------------------------------------------------------------------
(* C20: the single-byte writeSocket *)

\* C20: writeSocket(fd, b) makes a single send attempt and then returns: it
\* has left the loop after one successful send and after one send error was
\* raised, and it never sends the same byte more than once.
C20_SingleSendThenReturn ==
  /\ attempts <= 1
  /\ Len(wire) <= 1
  /\ attempts = 1 => wpc # "loop"

----------------------------------------------------------------------------
(* C21: execve fails in the forked child *)

\* the child returned EXIT_FAILURE from main because execve failed
C21_LaunchFailed ==
  /\ child \in {"zombie", "reaped"}
  /\ workerEnv = NULL
  /\ childStat = W_EXITCODE(EXIT_FAILURE)

C21_CleanedUp ==
  /\ child = "reaped"
  /\ ~pathExists
  /\ pc = "exited"
  /\ supExit = EXIT_FAILURE

\* C21: in filesystem-path mode, when execve fails in the child the child
\* exits with the failure status and the supervisor observes it, reaps the
\* child, removes the path and exits with the same status: unless the
\* supervisor reported a fatal error of its own, it is never found ended
\* with the child unreaped, the path in place or another status.
C21_LaunchFailureCleanedUp ==
  (C21_LaunchFailed /\ ~Alive /\ supErr = "") => C21_CleanedUp

----------------------------------------------------------------------------
(* C22: the single-byte readSocket *)

\* C22: readSocket(fd) returns a value in 0..255 equal to the received byte
\* for every byte value 0x00..0xFF, and returns -1 only at end of stream or
\* on an error: no received byte gives -1 or any other negative result.
C22_ReceivedByteInRange ==
  rpc = "returned" =>
     /\ rgot.kind = "byte" => (rret \in 0..255 /\ rret = rgot.byte)
     /\ rret < 0 => (rret = -1 /\ rgot.kind \in {"eof", "error"})

====
